---- MODULE Spec2Model ----
(***************************************************************************)
(* CRUD services of the repository:                                        *)
(*   - the persisted employee blueprint (backend/company/employee), a      *)
(*     DatabaseManager over one PostgreSQL table plus its Flask handlers;  *)
(*   - the in-memory department blueprint (backend/company/department);    *)
(*   - the in-memory item service (employee.py).                           *)
(* The three tables share no state, so a run exercises one service (svc)   *)
(* and the other two tables stay as constructed.                           *)
(* Strings that the code trims are sequences of one-character strings, so  *)
(* that str.strip() is computed and not assumed.  Request bodies are JSON  *)
(* objects with string values, or JSON null.  A request of the persisted   *)
(* service may find the store unreachable (psycopg2 raises), which its     *)
(* handler answers with 500.  The health probe, the stateless legacy       *)
(* /api/employee routes of employee.py and app.py hold no table state and  *)
(* are left out.                                                           *)
(***************************************************************************)
EXTENDS Integers, Sequences, FiniteSets, TLC

VARIABLES
  svc,          \* the service this run exercises
  tableExists,  \* relation employees exists in the database
  employees,    \* rows of relation employees
  seq,          \* next value of the SERIAL sequence employees_id_seq
  now,          \* start time of the latest timestamping transaction
  departments,  \* the module-level list `departments`
  items,        \* the module-level list `items`
  nborn,        \* history: records appended to the in-memory list so far
  last,         \* history: the latest request and its response
  prev,         \* history: the request before it
  before,       \* history: the exercised table as the latest request found it
  nreq,         \* requests started so far
  pc, loc,      \* per worker thread: position in its handler, its locals
  overlap,      \* history: a request started while another was in progress
  acked,        \* history: ids returned by creates, in order
  delreq        \* history: ids a delete request named

vars == <<svc, tableExists, employees, seq, now, departments, items, nborn,
          last, prev, before, nreq, pc, loc, overlap, acked, delreq>>

dbvars == <<tableExists, employees, seq, now>>
memvars == <<departments, items, nborn>>
thvars == <<pc, loc, overlap>>

\* ------------------------------------------------------------------ bounds
\* requests (and re-imports) in one run against the persisted employee service
MaxEmpReq == 2
\* requests in one run of sequential requests to an in-memory service
MaxReq == 3
\* requests in one run of concurrent requests
MaxConcReq == 4
\* ids a request may address are 1..MaxId
MaxId == 5
\* worker threads serving requests of the in-memory services
MaxThreads == 2

Services == {"employee", "department", "item"}
Ids == 1..MaxId
Threads == 1..MaxThreads

\* ----------------------------------------------------------------- strings
\* the strings a request carries in a required field: empty, blank, padded
InStr == {<<>>, <<" ">>, <<" ", "a", " ">>}
\* zip_code is never validated: a request names it, padded, or leaves it out
ZipStr == {<<" ", "z", " ">>}

RECURSIVE lstrip(_)
lstrip(s) == IF s # <<>> /\ Head(s) = " " THEN lstrip(Tail(s)) ELSE s

RECURSIVE rstrip(_)
rstrip(s) ==
  IF s # <<>> /\ s[Len(s)] = " " THEN rstrip(SubSeq(s, 1, Len(s) - 1)) ELSE s

\* str.strip(): drop leading and trailing whitespace
strip(s) == rstrip(lstrip(s))

\* ----------------------------------------------------------- request bodies
EmpFields == {"first_name", "last_name", "zip_code"}
MemFields == {"name", "description"}
MemStr == {"x"}

NullBody == [null |-> TRUE, data |-> <<>>]

\* the JSON objects over `fields`, field f holding a string of strs[f]
ObjBodies(fields, strs) ==
  {[null |-> FALSE, data |-> d] :
     d \in UNION {{e \in [S -> UNION {strs[f] : f \in S}] : \A f \in S : e[f] \in strs[f]} :
                   S \in SUBSET fields}}

EmpStr == [f \in EmpFields |-> IF f = "zip_code" THEN ZipStr ELSE InStr]
MemVal == [f \in MemFields |-> MemStr]

EmpBodies == ObjBodies(EmpFields, EmpStr) \cup {NullBody}
MemBodies == ObjBodies(MemFields, MemVal) \cup {NullBody}

\* `request.json or {}`
json_or_empty(body) == IF body.null THEN <<>> ELSE body.data

\* dict.get(key, default)
dict_get(d, k, default) == IF k \in DOMAIN d THEN d[k] ELSE default

\* ---------------------------------------------------------------- responses
Resp(op, id, status, rec, rows, body, had) ==
  [op |-> op, id |-> id, status |-> status, rec |-> rec, rows |-> rows,
   body |-> body, had |-> had]

NoResp == Resp("none", 0, 0, <<>>, <<>>, NullBody, FALSE)

Table ==
  CASE svc = "employee" -> employees
    [] svc = "department" -> departments
    [] svc = "item" -> items

Reply(r) ==
  /\ last' = r
  /\ prev' = [op |-> last.op, id |-> last.id, status |-> last.status]
  /\ before' = Table
  /\ acked' = IF r.op = "create" /\ r.status = 201 THEN Append(acked, r.id) ELSE acked
  /\ delreq' = IF r.op = "delete" THEN delreq \cup {r.id} ELSE delreq
  /\ nreq' = nreq + 1

\* ------------------------------------------------- persisted employee store
Alice == <<"A", "l", "i", "c", "e">>
Smith == <<"S", "m", "i", "t", "h">>
Bob == <<"B", "o", "b">>
Johnson == <<"J", "o", "h", "n", "s", "o", "n">>
Carol == <<"C", "a", "r", "o", "l">>
Williams == <<"W", "i", "l", "l", "i", "a", "m", "s">>
David == <<"D", "a", "v", "i", "d">>
Brown == <<"B", "r", "o", "w", "n">>

sample_employees ==
  << <<Alice, Smith, <<"1", "2", "3", "4", "5">> >>,
     <<Bob, Johnson, <<"6", "7", "8", "9", "0">> >>,
     <<Carol, Williams, <<"1", "1", "1", "1", "1">> >>,
     <<David, Brown, <<"2", "2", "2", "2", "2">> >> >>

\* one row of table employees; id is SERIAL, both timestamps are
\* CURRENT_TIMESTAMP, the start time of the inserting transaction
Row(id, fn, ln, zip, t) ==
  [id |-> id, first_name |-> fn, last_name |-> ln, zip_code |-> zip,
   created_at |-> t, updated_at |-> t]

\* the columns SELECT / INSERT ... RETURNING hand back
SelectCols(r) ==
  [id |-> r.id, first_name |-> r.first_name, last_name |-> r.last_name,
   zip_code |-> r.zip_code, created_at |-> r.created_at]

\* the columns UPDATE ... RETURNING hands back
UpdateCols(r) ==
  [id |-> r.id, first_name |-> r.first_name, last_name |-> r.last_name,
   zip_code |-> r.zip_code, updated_at |-> r.updated_at]

EmpIds == {r.id : r \in employees}

\* DatabaseManager.create_employee: the inserted row
db_create_employee(first_name, last_name, zip_code) ==
  Row(seq, first_name, last_name, zip_code, now + 1)

\* variant: ORDER BY created_at ASC
RECURSIVE OrderByCreatedAsc(_)
OrderByCreatedAsc(S) ==
  IF S = {} THEN {<<>>}
  ELSE UNION {{<<r>> \o t : t \in OrderByCreatedAsc(S \ {r})} :
                r \in {x \in S : \A y \in S : x.created_at <= y.created_at}}

\* ORDER BY created_at DESC: every order of the rows that is descending in
\* created_at; rows of equal created_at come in an order SQL leaves open
RECURSIVE OrderByCreatedDesc(_)
OrderByCreatedDesc(S) ==
  IF S = {} THEN {<<>>}
  ELSE UNION {{<<r>> \o t : t \in OrderByCreatedDesc(S \ {r})} :
                r \in {x \in S : \A y \in S : x.created_at >= y.created_at}}

\* DatabaseManager.get_all_employees: the possible results
db_get_all_employees ==
  {[i \in 1..Len(s) |-> SelectCols(s[i])] : s \in OrderByCreatedDesc(employees)}

\* DatabaseManager.get_employee_by_id: <<row>> or <<>> (None)
db_get_employee_by_id(employee_id) ==
  IF employee_id \in EmpIds
  THEN <<SelectCols(CHOOSE r \in employees : r.id = employee_id)>>
  ELSE <<>>

\* variant: zip_code missing from the SET clause
db_update_employee_keep_zip(employee_id, first_name, last_name, zip_code) ==
  {IF r.id = employee_id
   THEN [r EXCEPT !.first_name = first_name, !.last_name = last_name,
                  !.updated_at = now + 1]
   ELSE r : r \in employees}

\* DatabaseManager.update_employee: the table after the UPDATE
db_update_employee(employee_id, first_name, last_name, zip_code) ==
  {IF r.id = employee_id
   THEN [r EXCEPT !.first_name = first_name, !.last_name = last_name,
                  !.zip_code = zip_code, !.updated_at = now + 1]
   ELSE r : r \in employees}

\* variant: WHERE id <> %s
db_delete_employee_others(employee_id) == {r \in employees : r.id = employee_id}

\* variant: the DELETE matches no row
db_delete_employee_none(employee_id) == employees

\* DatabaseManager.delete_employee: the table after the DELETE
db_delete_employee(employee_id) == {r \in employees : r.id # employee_id}

\* the seed rows init_employees_table inserts in one transaction that starts
\* at time t, the sequence standing at s
SeedRowsAt(s, t) ==
  {Row(s + i - 1, sample_employees[i][1], sample_employees[i][2],
       sample_employees[i][3], t) : i \in 1..Len(sample_employees)}

SeedRows == SeedRowsAt(seq, now + 1)

\* variant: the seed rows are inserted without the count check
db_init_employees_table_always == employees \cup SeedRows

\* DatabaseManager.init_employees_table: the table after the call
db_init_employees_table == IF Cardinality(employees) = 0 THEN SeedRows ELSE employees

\* variant: `if not first_name and not last_name`
required_missing_both(first_name, last_name) == first_name = <<>> /\ last_name = <<>>

\* variant: `if not first_name`
required_missing_first(first_name, last_name) == first_name = <<>>

\* `if not first_name or not last_name`
required_missing(first_name, last_name) == first_name = <<>> \/ last_name = <<>>

\* module-level `db.init_employees_table()` run on import, here the import of
\* a restarted process; a psycopg2 error is logged and the import goes on
import_init ==
  /\ svc = "employee" /\ nreq < MaxEmpReq
  /\ \E up \in BOOLEAN :
       IF ~up
       THEN /\ UNCHANGED dbvars
            /\ Reply(Resp("init", 0, 500, <<>>, <<>>, NullBody, employees # {}))
       ELSE /\ tableExists' = TRUE
            /\ employees' = db_init_employees_table
            /\ seq' = IF employees = {} THEN seq + Len(sample_employees) ELSE seq
            /\ now' = now + 1
            /\ Reply(Resp("init", 0, 0, <<>>, <<>>, NullBody, employees # {}))
  /\ UNCHANGED <<svc, memvars, thvars>>

list_employees ==
  /\ svc = "employee" /\ nreq < MaxEmpReq
  /\ \E up \in BOOLEAN :
       IF ~(up /\ tableExists)
       THEN Reply(Resp("list", 0, 500, <<>>, <<>>, NullBody, FALSE))
       ELSE \E rows \in db_get_all_employees :
              Reply(Resp("list", 0, 200, <<>>, rows, NullBody, FALSE))
  /\ UNCHANGED <<svc, dbvars, memvars, thvars>>

get_employee(emp_id) ==
  /\ svc = "employee" /\ nreq < MaxEmpReq
  /\ \E up \in BOOLEAN :
       IF ~(up /\ tableExists)
       THEN Reply(Resp("get", emp_id, 500, <<>>, <<>>, NullBody, emp_id \in EmpIds))
       ELSE LET employee == db_get_employee_by_id(emp_id)
            IN IF employee # <<>>
               THEN Reply(Resp("get", emp_id, 200, employee, <<>>, NullBody,
                               emp_id \in EmpIds))
               ELSE Reply(Resp("get", emp_id, 404, <<>>, <<>>, NullBody,
                               emp_id \in EmpIds))
  /\ UNCHANGED <<svc, dbvars, memvars, thvars>>

create_employee(body) ==
  /\ svc = "employee" /\ nreq < MaxEmpReq
  /\ LET data == json_or_empty(body)
         first_name == strip(dict_get(data, "first_name", <<>>))
         last_name == strip(dict_get(data, "last_name", <<>>))
         zip_code == strip(dict_get(data, "zip_code", <<>>))
     IN IF required_missing(first_name, last_name)
        THEN /\ UNCHANGED dbvars
             /\ Reply(Resp("create", 0, 400, <<>>, <<>>, body, FALSE))
        ELSE \E up \in BOOLEAN :
               IF ~(up /\ tableExists)
               THEN /\ UNCHANGED dbvars
                    /\ Reply(Resp("create", 0, 500, <<>>, <<>>, body, FALSE))
               ELSE LET row == db_create_employee(first_name, last_name, zip_code)
                    IN /\ employees' = employees \cup {row}
                       /\ seq' = seq + 1
                       /\ now' = now + 1
                       /\ UNCHANGED tableExists
                       /\ Reply(Resp("create", row.id, 201, <<SelectCols(row)>>,
                                     <<>>, body, FALSE))
  /\ UNCHANGED <<svc, memvars, thvars>>

update_employee(emp_id, body) ==
  /\ svc = "employee" /\ nreq < MaxEmpReq
  /\ LET data == json_or_empty(body)
         first_name == strip(dict_get(data, "first_name", <<>>))
         last_name == strip(dict_get(data, "last_name", <<>>))
         zip_code == strip(dict_get(data, "zip_code", <<>>))
         had == emp_id \in EmpIds
     IN IF required_missing(first_name, last_name)
        THEN /\ UNCHANGED dbvars
             /\ Reply(Resp("update", emp_id, 400, <<>>, <<>>, body, had))
        ELSE \E up \in BOOLEAN :
               IF ~(up /\ tableExists)
               THEN /\ UNCHANGED dbvars
                    /\ Reply(Resp("update", emp_id, 500, <<>>, <<>>, body, had))
               ELSE LET after == db_update_employee(emp_id, first_name, last_name, zip_code)
                        hit == {r \in after : r.id = emp_id}
                    IN /\ employees' = after
                       /\ now' = now + 1
                       /\ UNCHANGED <<tableExists, seq>>
                       /\ IF hit # {}
                          THEN Reply(Resp("update", emp_id, 200,
                                          <<UpdateCols(CHOOSE r \in hit : TRUE)>>,
                                          <<>>, body, had))
                          ELSE Reply(Resp("update", emp_id, 404, <<>>, <<>>, body, had))
  /\ UNCHANGED <<svc, memvars, thvars>>

delete_employee(emp_id) ==
  /\ svc = "employee" /\ nreq < MaxEmpReq
  /\ LET had == emp_id \in EmpIds
     IN \E up \in BOOLEAN :
          IF ~(up /\ tableExists)
          THEN /\ UNCHANGED dbvars
               /\ Reply(Resp("delete", emp_id, 500, <<>>, <<>>, NullBody, had))
          ELSE LET after == db_delete_employee(emp_id)
                   success == Cardinality(employees) - Cardinality(after) > 0
               IN /\ employees' = after
                  /\ UNCHANGED <<tableExists, seq, now>>
                  /\ IF success
                     THEN Reply(Resp("delete", emp_id, 200, <<[deleted_id |-> emp_id]>>,
                                     <<>>, NullBody, had))
                     ELSE Reply(Resp("delete", emp_id, 404, <<>>, <<>>, NullBody, had))
  /\ UNCHANGED <<svc, memvars, thvars>>

EmpNext ==
  \/ import_init
  \/ list_employees
  \/ \E emp_id \in Ids : get_employee(emp_id)
  \/ \E body \in EmpBodies : create_employee(body)
  \/ \E emp_id \in Ids, body \in EmpBodies : update_employee(emp_id, body)
  \/ \E emp_id \in Ids : delete_employee(emp_id)

\* --------------------------------------------------- in-memory services
\* a record of an in-memory list; ord is history (the order of creation)
Rec(id, name, description, ord) ==
  [id |-> id, name |-> name, description |-> description, ord |-> ord]

\* the list `departments` as the module constructs it
departments0 ==
  << Rec(1, "Engineering", "Builds product", 1),
     Rec(2, "Operations", "Keeps things running", 2) >>

\* the list `items` as the module constructs it
items0 ==
  << Rec(1, "Sample Item 1", "This is a sample item for testing", 1),
     Rec(2, "Sample Item 2", "Another sample item", 2),
     Rec(3, "Test Item", "A test item with some description", 3) >>

IdsOf(l) == {l[i].id : i \in 1..Len(l)}

MaxOf(S) == CHOOSE m \in S : \A x \in S : x <= m

\* variant: len(departments) + 1
next_id_len(ds) == Len(ds) + 1

\* _next_id(): max((d["id"] for d in departments), default=0) + 1
next_id(ds) == (IF IdsOf(ds) = {} THEN 0 ELSE MaxOf(IdsOf(ds))) + 1

\* variant: len(items) + 1
new_id_len(its) == Len(its) + 1

\* max(item["id"] for item in items) + 1 if items else 1
new_id(its) == IF its # <<>> THEN MaxOf(IdsOf(its)) + 1 ELSE 1

\* [d for d in l if d["id"] != id]
without(l, id) == SelectSeq(l, LAMBDA d : d.id # id)

\* next((item for item in items if item["id"] == item_id), None)
find(its, item_id) ==
  IF item_id \in IdsOf(its)
  THEN <<its[CHOOSE i \in 1..Len(its) :
               /\ its[i].id = item_id
               /\ \A j \in 1..(i - 1) : its[j].id # item_id]>>
  ELSE <<>>

\* the dict create_department builds
new_dep(ds, body) ==
  LET data == json_or_empty(body)
  IN Rec(next_id(ds), dict_get(data, "name", ""), dict_get(data, "description", ""), 0)

\* the dict add_item builds (body is a JSON object)
new_item(its, body) ==
  Rec(new_id(its), dict_get(body.data, "name", "Unnamed Item"),
      dict_get(body.data, "description", ""), 0)

\* list.append(rec); the creation order is recorded in ord
appended(l, rec) == Append(l, [rec EXCEPT !.ord = nborn + 1])

\* item["name"] = ...; item["description"] = ... on the dict found
assigned(its, item, body) ==
  [i \in 1..Len(its) |->
     IF its[i] = item
     THEN [its[i] EXCEPT !.name = dict_get(body.data, "name", item.name),
                         !.description = dict_get(body.data, "description",
                                                  item.description)]
     ELSE its[i]]

list_departments ==
  /\ svc = "department" /\ nreq < MaxReq
  /\ Reply(Resp("list", 0, 200, <<>>, departments, NullBody, FALSE))
  /\ UNCHANGED <<svc, dbvars, memvars, thvars>>

create_department(body) ==
  /\ svc = "department" /\ nreq < MaxReq
  /\ LET dep == new_dep(departments, body)
     IN /\ departments' = appended(departments, dep)
        /\ nborn' = nborn + 1
        /\ Reply(Resp("create", dep.id, 201, <<dep>>, <<>>, body, FALSE))
  /\ UNCHANGED <<svc, dbvars, items, thvars>>

delete_department(dept_id) ==
  /\ svc = "department" /\ nreq < MaxReq
  /\ departments' = without(departments, dept_id)
  /\ Reply(Resp("delete", dept_id, 200, <<[deleted_id |-> dept_id]>>, <<>>,
                NullBody, dept_id \in IdsOf(departments)))
  /\ UNCHANGED <<svc, dbvars, items, nborn, thvars>>

get_items ==
  /\ svc = "item" /\ nreq < MaxReq
  /\ Reply(Resp("list", 0, 200, <<>>, items, NullBody, FALSE))
  /\ UNCHANGED <<svc, dbvars, memvars, thvars>>

get_item(item_id) ==
  /\ svc = "item" /\ nreq < MaxReq
  /\ LET item == find(items, item_id)
         had == item_id \in IdsOf(items)
     IN IF item # <<>>
        THEN Reply(Resp("get", item_id, 200, item, <<>>, NullBody, had))
        ELSE Reply(Resp("get", item_id, 404, <<>>, <<>>, NullBody, had))
  /\ UNCHANGED <<svc, dbvars, memvars, thvars>>

\* a JSON null body makes data.get raise: Flask answers 500
add_item(body) ==
  /\ svc = "item" /\ nreq < MaxReq
  /\ IF body.null
     THEN /\ UNCHANGED <<items, nborn>>
          /\ Reply(Resp("create", 0, 500, <<>>, <<>>, body, FALSE))
     ELSE LET item == new_item(items, body)
          IN /\ items' = appended(items, item)
             /\ nborn' = nborn + 1
             /\ Reply(Resp("create", item.id, 201, <<item>>, <<>>, body, FALSE))
  /\ UNCHANGED <<svc, dbvars, departments, thvars>>

update_item(item_id, body) ==
  /\ svc = "item" /\ nreq < MaxReq
  /\ LET item == find(items, item_id)
         had == item_id \in IdsOf(items)
     IN IF item # <<>>
        THEN IF body.null
             THEN /\ UNCHANGED items
                  /\ Reply(Resp("update", item_id, 500, <<>>, <<>>, body, had))
             ELSE LET after == assigned(items, item[1], body)
                  IN /\ items' = after
                     /\ Reply(Resp("update", item_id, 200, find(after, item_id),
                                   <<>>, body, had))
        ELSE /\ UNCHANGED items
             /\ Reply(Resp("update", item_id, 404, <<>>, <<>>, body, had))
  /\ UNCHANGED <<svc, dbvars, departments, nborn, thvars>>

delete_item(item_id) ==
  /\ svc = "item" /\ nreq < MaxReq
  /\ LET item == find(items, item_id)
         had == item_id \in IdsOf(items)
     IN IF item # <<>>
        THEN /\ items' = without(items, item_id)
             /\ Reply(Resp("delete", item_id, 200,
                           <<[message |-> "Item deleted successfully"]>>, <<>>,
                           NullBody, had))
        ELSE /\ UNCHANGED items
             /\ Reply(Resp("delete", item_id, 404, <<>>, <<>>, NullBody, had))
  /\ UNCHANGED <<svc, dbvars, departments, nborn, thvars>>

DeptNext ==
  \/ list_departments
  \/ \E body \in MemBodies : create_department(body)
  \/ \E dept_id \in Ids : delete_department(dept_id)

ItemNext ==
  \/ get_items
  \/ \E item_id \in Ids : get_item(item_id)
  \/ \E body \in MemBodies : add_item(body)
  \/ \E item_id \in Ids, body \in MemBodies : update_item(item_id, body)
  \/ \E item_id \in Ids : delete_item(item_id)

\* ------------------------------------------------------- sequential runs
Init ==
  /\ svc \in Services
  \* the first import ran init_employees_table on a fresh database, or failed
  /\ tableExists \in (IF svc = "employee" THEN BOOLEAN ELSE {FALSE})
  /\ employees = IF tableExists THEN SeedRowsAt(1, 1) ELSE {}
  /\ seq = IF tableExists THEN Len(sample_employees) + 1 ELSE 1
  /\ now = IF tableExists THEN 1 ELSE 0
  /\ departments = departments0
  /\ items = items0
  /\ nborn = Len(items0)
  /\ last = NoResp
  /\ prev = [op |-> "none", id |-> 0, status |-> 0]
  /\ before = Table
  /\ nreq = 0
  /\ pc = [t \in Threads |-> "idle"]
  /\ loc = [t \in Threads |-> <<>>]
  /\ overlap = FALSE
  /\ acked = <<>>
  /\ delreq = {}

Next == EmpNext \/ DeptNext \/ ItemNext

Spec == Init /\ [][Next]_vars
\* ------------------------------------------------------- concurrent runs
\* The in-memory services take no lock: under a threaded server a handler's
\* read of the list and its write are separate steps of its thread.  An
\* append to a list object that a concurrent delete has already replaced
\* leaves the same table as an append made between that delete's two steps.
\* bodies of concurrent creates: the id a create takes depends on no field
ConcBodies == {NullBody, [null |-> FALSE, data |-> <<>>]}

MemTable == IF svc = "department" THEN departments ELSE items

Locals(id, rec, snap) == [id |-> id, rec |-> rec, snap |-> snap]

At(t, where) == pc[t] = where

Start(t) ==
  /\ At(t, "idle")
  /\ nreq < MaxConcReq
  /\ nreq' = nreq + 1
  /\ overlap' = (overlap \/ \E u \in Threads \ {t} : pc[u] # "idle")

Goto(t, where, locals) ==
  /\ pc' = [pc EXCEPT ![t] = where]
  /\ loc' = [loc EXCEPT ![t] = locals]

\* create_department up to the call of append: the dict is built
create_department_build(t, body) ==
  /\ svc = "department" /\ Start(t)
  /\ Goto(t, "dept_append", Locals(0, <<new_dep(departments, body)>>, <<>>))
  /\ UNCHANGED <<svc, dbvars, memvars, last, prev, before, acked, delreq>>

\* departments.append(dep) and the 201 response
create_department_append(t) ==
  /\ svc = "department" /\ At(t, "dept_append")
  /\ departments' = appended(departments, loc[t].rec[1])
  /\ nborn' = nborn + 1
  /\ acked' = Append(acked, loc[t].rec[1].id)
  /\ Goto(t, "idle", <<>>)
  /\ UNCHANGED <<svc, dbvars, items, last, prev, before, nreq, overlap, delreq>>

\* delete_department: the list comprehension is evaluated
delete_department_filter(t, dept_id) ==
  /\ svc = "department" /\ Start(t)
  /\ delreq' = delreq \cup {dept_id}
  /\ Goto(t, "dept_assign", Locals(dept_id, <<>>, without(departments, dept_id)))
  /\ UNCHANGED <<svc, dbvars, memvars, last, prev, before, acked>>

\* delete_department: the global is rebound to the new list
delete_department_assign(t) ==
  /\ svc = "department" /\ At(t, "dept_assign")
  /\ departments' = loc[t].snap
  /\ Goto(t, "idle", <<>>)
  /\ UNCHANGED <<svc, dbvars, items, nborn, last, prev, before, nreq, overlap,
                 acked, delreq>>

\* add_item up to the call of append; a null body ends the request with 500
add_item_build(t, body) ==
  /\ svc = "item" /\ Start(t)
  /\ IF body.null
     THEN UNCHANGED <<pc, loc>>
     ELSE Goto(t, "item_append", Locals(0, <<new_item(items, body)>>, <<>>))
  /\ UNCHANGED <<svc, dbvars, memvars, last, prev, before, acked, delreq>>

\* items.append(new_item) and the 201 response
add_item_append(t) ==
  /\ svc = "item" /\ At(t, "item_append")
  /\ items' = appended(items, loc[t].rec[1])
  /\ nborn' = nborn + 1
  /\ acked' = Append(acked, loc[t].rec[1].id)
  /\ Goto(t, "idle", <<>>)
  /\ UNCHANGED <<svc, dbvars, departments, last, prev, before, nreq, overlap, delreq>>

\* delete_item: the lookup; no item ends the request with 404
delete_item_find(t, item_id) ==
  /\ svc = "item" /\ Start(t)
  /\ delreq' = delreq \cup {item_id}
  /\ IF find(items, item_id) # <<>>
     THEN Goto(t, "item_filter", Locals(item_id, <<>>, <<>>))
     ELSE UNCHANGED <<pc, loc>>
  /\ UNCHANGED <<svc, dbvars, memvars, last, prev, before, acked>>

\* delete_item: the list comprehension is evaluated
delete_item_filter(t) ==
  /\ svc = "item" /\ At(t, "item_filter")
  /\ Goto(t, "item_assign", Locals(loc[t].id, <<>>, without(items, loc[t].id)))
  /\ UNCHANGED <<svc, dbvars, memvars, last, prev, before, nreq, overlap, acked, delreq>>

\* delete_item: the global is rebound to the new list
delete_item_assign(t) ==
  /\ svc = "item" /\ At(t, "item_assign")
  /\ items' = loc[t].snap
  /\ Goto(t, "idle", <<>>)
  /\ UNCHANGED <<svc, dbvars, departments, nborn, last, prev, before, nreq, overlap,
                 acked, delreq>>

InitConc == Init /\ svc \in {"department", "item"}

NextConc ==
  \/ \E t \in Threads, body \in ConcBodies : create_department_build(t, body)
  \/ \E t \in Threads : create_department_append(t)
  \/ \E t \in Threads, dept_id \in Ids : delete_department_filter(t, dept_id)
  \/ \E t \in Threads : delete_department_assign(t)
  \/ \E t \in Threads, body \in ConcBodies : add_item_build(t, body)
  \/ \E t \in Threads : add_item_append(t)
  \/ \E t \in Threads, item_id \in Ids : delete_item_find(t, item_id)
  \/ \E t \in Threads : delete_item_filter(t)
  \/ \E t \in Threads : delete_item_assign(t)

SpecConc == InitConc /\ [][NextConc]_vars
\* ================================================================ properties
TableIds == IF svc = "employee" THEN EmpIds ELSE IdsOf(MemTable)

OnlySpaces(s) == \A i \in 1..Len(s) : s[i] = " "

\* field f of body b is absent, empty or only whitespace
Blank(b, f) == b.null \/ f \notin DOMAIN b.data \/ OnlySpaces(b.data[f])

RequiredBlank(b) == Blank(b, "first_name") \/ Blank(b, "last_name")

\* s is raw without its leading and trailing spaces
IsTrimOf(s, raw) ==
  /\ s = <<>> \/ (s[1] # " " /\ s[Len(s)] # " ")
  /\ \E i \in 0..Len(raw) :
       /\ i + Len(s) <= Len(raw)
       /\ OnlySpaces(SubSeq(raw, 1, i))
       /\ SubSeq(raw, i + 1, i + Len(s)) = s
       /\ OnlySpaces(SubSeq(raw, i + Len(s) + 1, Len(raw)))

HasField(rec, f) == rec # <<>> /\ f \in DOMAIN rec[1]

RowOf(T, id) == CHOOSE r \in T : r.id = id

HasDup(l) == \E i, j \in 1..Len(l) : i < j /\ l[i].id = l[j].id

\* C1: on one table, the id a create returns differs from the id every
\* earlier create returned, also when the earlier record was deleted in
\* between: no id is reused.
C1_IdNeverReused == \A i, j \in 1..Len(acked) : i # j => acked[i] # acked[j]

DeleteThenGet == prev.op = "delete" /\ last.op = "get" /\ last.id = prev.id

\* C2 as claimed: a delete of an id immediately followed by a get of the
\* same id yields 404, whatever the store held.
C2_DeleteThenGetNotFound == DeleteThenGet => last.status = 404

\* C2 as amended: a get that immediately follows a delete of the same id
\* answers 404 in the item service; in the persisted service it answers 404
\* or, when the store cannot be reached, 500, and it answers 200 only when
\* the delete itself failed with 500 and so removed nothing.
C2_DeleteThenGetNotFoundUnlessStoreFails ==
  DeleteThenGet =>
    /\ svc = "item" => last.status = 404
    /\ svc = "employee" =>
         \/ last.status \in {404, 500}
         \/ last.status = 200 /\ prev.status = 500
    /\ last.status = 404 => last.id \notin TableIds

C2_Witness ==
  DeleteThenGet /\ svc = "employee" /\ prev.status = 200 /\ last.status = 404

UpdateMiss == last.op = "update" /\ ~last.had

Born(r) == IF svc = "employee" THEN r.id ELSE r.ord

Listed == last.op = "list" /\ last.status = 200

\* C5 as claimed: list returns a later-created record before every
\* earlier-created one, in every variant.
C5_NewestFirst ==
  Listed => \A i, j \in 1..Len(last.rows) :
              i < j => Born(last.rows[i]) > Born(last.rows[j])

\* C5 as amended: the persisted list is descending in created_at, so an
\* earlier-created row precedes a later-created one only when both carry the
\* same created_at (as the seed rows do); the in-memory lists come in
\* creation order, oldest first.  Every record of the table is listed.
C5_ListOrder ==
  Listed =>
    /\ {last.rows[i].id : i \in 1..Len(last.rows)} = TableIds
    /\ \A i, j \in 1..Len(last.rows) :
         i < j =>
           IF svc = "employee"
           THEN /\ last.rows[i].created_at >= last.rows[j].created_at
                /\ Born(last.rows[i]) < Born(last.rows[j]) =>
                     last.rows[i].created_at = last.rows[j].created_at
           ELSE Born(last.rows[i]) < Born(last.rows[j])

C5_Witness ==
  /\ Listed /\ svc = "employee"
  /\ \E i, j \in 1..Len(last.rows) :
       i < j /\ last.rows[i].created_at > last.rows[j].created_at

Deleted == last.op = "delete"

NamesDeletedId == HasField(last.rec, "deleted_id") /\ last.rec[1].deleted_id = last.id

\* C6 as claimed: the in-memory delete handlers (department, item) answer
\* 200 with a payload naming the deleted id whether or not the record
\* existed; the persisted handler answers 200 for a removed row and 404 for
\* none.
C6_InMemoryDeleteAlways200 ==
  Deleted =>
    /\ svc \in {"department", "item"} => last.status = 200 /\ NamesDeletedId
    /\ svc = "employee" =>
         /\ last.status = 200 => last.had
         /\ last.status = 404 => ~last.had

\* C6 as amended: the department handler answers 200 with the deleted id
\* whether or not the record existed; the item handler answers 200 with a
\* message that does not name the id when the record existed and 404 when it
\* did not; the persisted handler answers 200 with the deleted id for a
\* removed row, 404 for none, and 500 when the store cannot be reached.
C6_DeleteResponses ==
  Deleted =>
    /\ svc = "department" => last.status = 200 /\ NamesDeletedId
    /\ svc = "item" =>
         IF last.had
         THEN /\ last.status = 200
              /\ HasField(last.rec, "message")
              /\ ~HasField(last.rec, "deleted_id")
         ELSE last.status = 404 /\ last.rec = <<>>
    /\ svc = "employee" =>
         /\ last.status \in {200, 404, 500}
         /\ last.status = 200 => last.had /\ NamesDeletedId
         /\ last.status = 404 => ~last.had

C6_Witness == Deleted /\ svc = "item" /\ ~last.had /\ last.status = 404

Updated == svc = "employee" /\ last.op = "update" /\ last.status = 200

\* C7 as claimed: a successful persisted update keeps every field the
\* request body does not name.
C7_UnnamedFieldsKept ==
  Updated =>
    \A f \in EmpFields \ DOMAIN last.body.data :
      RowOf(employees, last.id)[f] = RowOf(before, last.id)[f]

\* C7 as amended: a successful persisted update overwrites first_name,
\* last_name and zip_code with the trimmed values of the request, a zip_code
\* the request does not name being stored as the empty string; id and
\* created_at are kept, updated_at is refreshed, no other row changes.
C7_UpdateOverwritesAll ==
  Updated =>
    LET r == RowOf(employees, last.id)
        o == RowOf(before, last.id)
    IN /\ \A f \in EmpFields :
            IF f \in DOMAIN last.body.data
            THEN IsTrimOf(r[f], last.body.data[f])
            ELSE r[f] = <<>>
       /\ r.id = o.id /\ r.created_at = o.created_at
       /\ r.updated_at > o.updated_at
       /\ employees \ {r} = before \ {o}

C7_Witness ==
  /\ Updated
  /\ "zip_code" \notin DOMAIN last.body.data
  /\ RowOf(before, last.id).zip_code # <<>>
  /\ RowOf(employees, last.id).zip_code = <<>>

Inited == svc = "employee" /\ last.op = "init"

\* C8: init_employees_table changes no row of a table that holds a row; on
\* a table without rows it inserts exactly the four sample rows (or, when
\* the store cannot be reached, nothing); a call that follows a successful
\* call leaves the table as the first call left it.
C8_InitIdempotent ==
  Inited =>
    /\ before # {} => employees = before
    /\ before = {} =>
         IF last.status = 0
         THEN /\ Cardinality(employees) = Len(sample_employees)
              /\ {<<r.first_name, r.last_name, r.zip_code>> : r \in employees}
                   = {sample_employees[i] : i \in 1..Len(sample_employees)}
         ELSE employees = {}
    /\ prev.op = "init" /\ prev.status = 0 => employees = before

C8_Witness ==
  /\ Inited /\ last.status = 0
  /\ prev.op = "init" /\ prev.status = 0
  /\ Cardinality(employees) = Len(sample_employees)

\* an acknowledged create whose record is gone though no delete named its id
LostCreate ==
  \E i \in 1..Len(acked) : acked[i] \notin delreq /\ acked[i] \notin IdsOf(MemTable)

\* C9: in the in-memory services, which take no lock, requests whose steps
\* interleave reach a table holding two records of one id, and a table from
\* which a create answered with 201 is missing; neither happens unless a
\* request started while another was in progress.
C9_BadStateOnlyWhenInterleaved == HasDup(MemTable) \/ LostCreate => overlap

C9_Witness == HasDup(MemTable) /\ LostCreate /\ \A t \in Threads : pc[t] = "idle"

\* C10: with requests served one at a time, no two records of an in-memory
\* table share an id, and a create returns an id greater than every id the
\* table held when the create arrived.
C10_SequentialIdsUnique ==
  svc \in {"department", "item"} =>
    /\ ~HasDup(MemTable)
    /\ last.op = "create" /\ last.status = 201 =>
         \A i \in 1..Len(before) : before[i].id < last.id

C10_Witness ==
  /\ svc = "department" /\ last.op = "create" /\ last.status = 201
  /\ prev.op = "delete" /\ prev.id \in IdsOf(departments0)
  /\ ~HasDup(departments)
====
